---- MODULE Spec2Model ----
(***************************************************************************)
(* Model of src/app.py: a single-table SQLite record store (insert,        *)
(* list, point lookup, update, delete) and the Streamlit script that       *)
(* drives it from four panels.                                             *)
(*                                                                         *)
(* Text values are sequences of one-character strings.  A row of table     *)
(* `users` is a record [id, name, email, phone, age, created_at].          *)
(* Time is counted in clock ticks; CURRENT_TIMESTAMP has a resolution of   *)
(* one second, which is TicksPerSec ticks.                                 *)
(***************************************************************************)
EXTENDS Integers, Sequences, FiniteSets, TLC

VARIABLES
    users,        \* the rows of table users (a set of rows)
    seq,          \* sqlite_sequence.seq for table users (AUTOINCREMENT)
    assigned,     \* history: every id ever given to a row by an INSERT
    clock,        \* wall clock, in ticks
    openConns,    \* connections opened and not yet closed
    last,         \* the latest store call or shell event
    sessions,     \* the browser sessions running the script
    pc,           \* per session: position of the script run
    panel,        \* per session: the operation chosen in the sidebar
    df,           \* per session: result of view_all_records() of this run
    selected_id,  \* per session: value of the selectbox of this run
    record,       \* per session: result of view_record_by_id() of this run
    pressed       \* per session: the run was triggered by the panel's button

storeVars == <<users, seq, assigned, clock, openConns>>
shellVars == <<sessions, pc, panel, df, selected_id, record, pressed>>
vars == <<users, seq, assigned, clock, openConns, last,
          sessions, pc, panel, df, selected_id, record, pressed>>

----------------------------------------------------------------------------
(* Bounds of the model *)

MaxId == 2          \* INSERTs are explored while the new id is <= MaxId
MaxClock == 2       \* the clock is explored up to this tick
MaxLeaked == 1      \* at most this many connections are left open at once

(* Resolution of CURRENT_TIMESTAMP: ticks per whole second *)
TicksPerSec == 2

(* Bounds of the age widget, st.number_input(min_value=1, max_value=120) *)
AgeMin == 1
AgeMax == 120

----------------------------------------------------------------------------
(* Inputs *)

NameInputs == {<<>>, <<" ">>, <<" ", "b">>}
EmailInputs == {<<>>, <<" ">>, <<"a">>, <<"a", "@">>}
PhoneInputs == {<<>>, <<" ">>, <<"5">>}
AgeInputs == {0, 1, 120, 121}

(* What a direct caller of the store passes: the store trusts its caller *)
StoreInputs ==
    { <<<<" ", "b">>, <<"a", "@">>, <<"5">>, 120>>,
      <<<<>>, <<"a">>, <<>>, 0>> }

(* Where the engine may raise inside one store operation *)
Faults == {"none", "connect", "execute", "commit"}

(* The two SELECT operations commit nothing *)
ReadFaults == {"none", "connect", "execute"}

SessionIds == {1, 2}

----------------------------------------------------------------------------
(* SQL statements as functions of the table *)

Ids(rows) == {r.id : r \in rows}

MaxRowid(rows) ==
    IF rows = {} THEN 0
    ELSE CHOOSE m \in Ids(rows) : \A i \in Ids(rows) : i <= m

Larger(a, b) == IF a >= b THEN a ELSE b

(* Without AUTOINCREMENT the rowid is one more than the largest in the table *)
NextRowidNoAutoincrement(rows, s) == MaxRowid(rows) + 1

(* id INTEGER PRIMARY KEY AUTOINCREMENT: one more than the largest rowid the
   table has ever held, which sqlite_sequence remembers *)
NextRowid(rows, s) == Larger(s, MaxRowid(rows)) + 1

(* created_at TIMESTAMP DEFAULT CURRENT_TIMESTAMP: the statement's time,
   in whole seconds *)
CurrentTimestamp(t) == t \div TicksPerSec

(* An INSERT whose values are bound to the columns in the wrong order *)
InsertedRowSwapped(rows, s, name, email, phone, age, t) ==
    [id |-> NextRowid(rows, s), name |-> name, email |-> phone,
     phone |-> email, age |-> age, created_at |-> CurrentTimestamp(t)]

(* INSERT INTO users (name, email, phone, age) VALUES (?, ?, ?, ?) *)
InsertedRow(rows, s, name, email, phone, age, t) ==
    [id |-> NextRowid(rows, s), name |-> name, email |-> email,
     phone |-> phone, age |-> age, created_at |-> CurrentTimestamp(t)]

(* An UPDATE without its WHERE clause *)
UpdatedRowsNoWhere(rows, id, name, email, phone, age) ==
    { [r EXCEPT !.name = name, !.email = email, !.phone = phone, !.age = age]
        : r \in rows }

(* An UPDATE that creates the row when no row has the id *)
UpdatedRowsUpsert(rows, id, name, email, phone, age) ==
    IF id \in Ids(rows)
    THEN { IF r.id = id
             THEN [r EXCEPT !.name = name, !.email = email,
                            !.phone = phone, !.age = age]
             ELSE r : r \in rows }
    ELSE rows \cup {[id |-> id, name |-> name, email |-> email,
                     phone |-> phone, age |-> age, created_at |-> 0]}

(* UPDATE users SET name = ?, email = ?, phone = ?, age = ? WHERE id = ? *)
UpdatedRows(rows, id, name, email, phone, age) ==
    { IF r.id = id
        THEN [r EXCEPT !.name = name, !.email = email,
                       !.phone = phone, !.age = age]
        ELSE r : r \in rows }

(* A DELETE whose comparison is off by one row *)
DeletedRowsUpTo(rows, id) == {r \in rows : r.id > id}

(* DELETE FROM users WHERE id = ? *)
DeletedRows(rows, id) == {r \in rows : r.id # id}

RECURSIVE OrderByIdDesc(_)
OrderByIdDesc(rows) ==
    IF rows = {} THEN <<>>
    ELSE LET top == CHOOSE r \in rows : \A q \in rows : q.id <= r.id
         IN  <<top>> \o OrderByIdDesc(rows \ {top})

RECURSIVE OrderByIdAsc(_)
OrderByIdAsc(rows) ==
    IF rows = {} THEN <<>>
    ELSE LET low == CHOOSE r \in rows : \A q \in rows : q.id >= r.id
         IN  <<low>> \o OrderByIdAsc(rows \ {low})

(* The same SELECT with ORDER BY id ASC *)
SelectAllAscending(rows) == OrderByIdAsc(rows)

(* SELECT id, name, email, phone, age, created_at FROM users ORDER BY id DESC *)
SelectAll(rows) == OrderByIdDesc(rows)

(* A lookup that returns a row whatever the id *)
SelectByIdAnyRow(rows, id) ==
    IF rows = {} THEN <<>>
    ELSE LET r == CHOOSE q \in rows : TRUE
         IN  <<r.name, r.email, r.phone, r.age>>

(* SELECT name, email, phone, age FROM users WHERE id = ?, then fetchone():
   the tuple, or <<>> for None *)
SelectById(rows, id) ==
    IF \E r \in rows : r.id = id
    THEN LET r == CHOOSE q \in rows : q.id = id
         IN  <<r.name, r.email, r.phone, r.age>>
    ELSE <<>>

----------------------------------------------------------------------------
(* The latest event *)

NoData == <<>>

(* op: the function called, or the shell's outcome; id, data: its arguments;
   fault: where the engine raised; ok: the value returned; present: whether
   a row with that id was in the table when the call was made; at: the time
   of the call; out: the rows or the tuple returned; nth: parity of the
   number of events so far *)
Event(op, id, data, fault, present, at, out) ==
    [op |-> op, id |-> id, data |-> data, fault |-> fault,
     ok |-> (fault = "none"), present |-> present, at |-> at, out |-> out,
     nth |-> 1 - last.nth]

(* The failure path returns without conn.close(); a failure of connect()
   itself opens nothing *)
ConnsAfter(fail) ==
    IF fail \in {"execute", "commit"} THEN openConns + 1 ELSE openConns

----------------------------------------------------------------------------
(* Record Store operations (lines 14-164).  Each is one call. *)

init_database(fail) ==
    /\ ConnsAfter(fail) <= MaxLeaked
    /\ openConns' = ConnsAfter(fail)
    /\ UNCHANGED <<users, seq, assigned, clock>>
    /\ last' = Event("init_database", 0, NoData, fail, FALSE,
                     clock, <<>>)

insert_record(name, email, phone, age, fail, elapsed) ==
    LET row == InsertedRow(users, seq, name, email, phone, age, clock + elapsed)
    IN  /\ row.id <= MaxId
        /\ clock + elapsed <= MaxClock
        /\ ConnsAfter(fail) <= MaxLeaked
        /\ clock' = clock + elapsed
        /\ openConns' = ConnsAfter(fail)
        /\ IF fail = "none"
             THEN /\ users' = users \cup {row}
                  /\ seq' = row.id
                  /\ assigned' = assigned \cup {row.id}
             ELSE UNCHANGED <<users, seq, assigned>>
        /\ last' = Event("insert_record",
                         IF fail = "none" THEN row.id ELSE 0,
                         <<name, email, phone, age>>, fail, FALSE,
                         clock, <<>>)

view_all_records(fail) ==
    /\ ConnsAfter(fail) <= MaxLeaked
    /\ openConns' = ConnsAfter(fail)
    /\ UNCHANGED <<users, seq, assigned, clock>>
    /\ last' = Event("view_all_records", 0, NoData, fail, FALSE,
                     clock,
                     IF fail = "none" THEN SelectAll(users) ELSE <<>>)

view_record_by_id(record_id, fail) ==
    /\ ConnsAfter(fail) <= MaxLeaked
    /\ openConns' = ConnsAfter(fail)
    /\ UNCHANGED <<users, seq, assigned, clock>>
    /\ last' = Event("view_record_by_id", record_id, NoData, fail,
                     record_id \in Ids(users), clock,
                     IF fail = "none" THEN SelectById(users, record_id)
                                      ELSE <<>>)

update_record(record_id, name, email, phone, age, fail) ==
    /\ ConnsAfter(fail) <= MaxLeaked
    /\ openConns' = ConnsAfter(fail)
    /\ users' = IF fail = "none"
                THEN UpdatedRows(users, record_id, name, email, phone, age)
                ELSE users
    /\ UNCHANGED <<seq, assigned, clock>>
    /\ last' = Event("update_record", record_id, <<name, email, phone, age>>,
                     fail, record_id \in Ids(users), clock, <<>>)

delete_record(record_id, fail) ==
    /\ ConnsAfter(fail) <= MaxLeaked
    /\ openConns' = ConnsAfter(fail)
    /\ users' = IF fail = "none" THEN DeletedRows(users, record_id) ELSE users
    /\ UNCHANGED <<seq, assigned, clock>>
    /\ last' = Event("delete_record", record_id, NoData, fail,
                     record_id \in Ids(users), clock, <<>>)

----------------------------------------------------------------------------
(* Environment *)

(* Time passes *)
Tick ==
    /\ clock < MaxClock
    /\ clock' = clock + 1
    /\ UNCHANGED <<users, seq, assigned, openConns, last>>
    /\ UNCHANGED shellVars

(* The runtime finalizes a connection object that nothing refers to *)
Finalize ==
    /\ openConns > 0
    /\ openConns' = openConns - 1
    /\ UNCHANGED <<users, seq, assigned, clock, last>>
    /\ UNCHANGED shellVars

----------------------------------------------------------------------------
(* The store driven directly by a caller *)

Initialize ==
    /\ \E fail \in Faults : init_database(fail)
    /\ UNCHANGED shellVars

Insert ==
    /\ \E d \in StoreInputs, fail \in Faults, elapsed \in 0..1 :
          insert_record(d[1], d[2], d[3], d[4], fail, elapsed)
    /\ UNCHANGED shellVars

ListAll ==
    /\ \E fail \in ReadFaults : view_all_records(fail)
    /\ UNCHANGED shellVars

GetById ==
    /\ \E id \in 1..MaxId, fail \in ReadFaults : view_record_by_id(id, fail)
    /\ UNCHANGED shellVars

Update ==
    /\ \E id \in 1..MaxId, d \in StoreInputs, fail \in Faults :
          update_record(id, d[1], d[2], d[3], d[4], fail)
    /\ UNCHANGED shellVars

Delete ==
    /\ \E id \in 1..MaxId, fail \in Faults : delete_record(id, fail)
    /\ UNCHANGED shellVars

(* The state once the script's first init_database() (line 171) has
   returned: the table exists and is empty *)
StoreInit ==
    /\ users = {}
    /\ seq = 0
    /\ assigned = {}
    /\ clock = 0
    /\ openConns = 0
    /\ last = [op |-> "init_database", id |-> 0, data |-> NoData,
               fault |-> "none", ok |-> TRUE, present |-> FALSE, at |-> 0,
               out |-> <<>>, nth |-> 0]

NoShell ==
    /\ pc = [s \in SessionIds |-> "idle"]
    /\ panel = [s \in SessionIds |-> "view"]
    /\ df = [s \in SessionIds |-> <<>>]
    /\ selected_id = [s \in SessionIds |-> 0]
    /\ record = [s \in SessionIds |-> <<>>]
    /\ pressed = [s \in SessionIds |-> FALSE]

Init ==
    /\ StoreInit
    /\ sessions = {}
    /\ NoShell

Next ==
    \/ Initialize
    \/ Insert
    \/ ListAll
    \/ GetById
    \/ Update
    \/ Delete
    \/ Tick
    \/ Finalize

Spec == Init /\ [][Next]_vars

----------------------------------------------------------------------------
(* Presentation Shell (lines 171-437): the script runs top to bottom on
   every interaction of a session; each step below is one store call of
   the run, or the run's end. *)

Panels == {"view", "add", "update", "delete"}

Whitespace == {" "}

RECURSIVE LStrip(_)
LStrip(s) ==
    IF s # <<>> /\ Head(s) \in Whitespace THEN LStrip(Tail(s)) ELSE s

RECURSIVE RStrip(_)
RStrip(s) ==
    IF s # <<>> /\ s[Len(s)] \in Whitespace
    THEN RStrip(SubSeq(s, 1, Len(s) - 1))
    ELSE s

(* str.strip() *)
Strip(s) == RStrip(LStrip(s))

(* c in s *)
Contains(s, c) == \E i \in 1..Len(s) : s[i] = c

(* st.number_input(min_value, max_value): the values the widget hands over *)
NumberInput(min, max) == {a \in AgeInputs : min <= a /\ a <= max}

(* A validation that only tests for the empty string *)
ValidationErrorNoStrip(name, email, phone, age) ==
    IF name = <<>> THEN "Name cannot be empty!"
    ELSE IF email = <<>> THEN "Email cannot be empty!"
    ELSE IF phone = <<>> THEN "Phone cannot be empty!"
    ELSE IF age < 1 THEN "Age must be at least 1!"
    ELSE "none"

(* The if/elif chain of lines 280-289 and 368-377 *)
ValidationError(name, email, phone, age) ==
    IF Strip(name) = <<>> THEN "Name cannot be empty!"
    ELSE IF Strip(email) = <<>> THEN "Email cannot be empty!"
    ELSE IF Strip(phone) = <<>> THEN "Phone cannot be empty!"
    ELSE IF ~Contains(email, "@") THEN "Please enter a valid email address!"
    ELSE IF age < 1 THEN "Age must be at least 1!"
    ELSE "none"

(* The run is over: the script's variables are gone *)
EndRun(s) ==
    /\ pc' = [pc EXCEPT ![s] = "idle"]
    /\ df' = [df EXCEPT ![s] = <<>>]
    /\ selected_id' = [selected_id EXCEPT ![s] = 0]
    /\ record' = [record EXCEPT ![s] = <<>>]
    /\ pressed' = [pressed EXCEPT ![s] = FALSE]

(* A submission that fails validation: st.error(...), and nothing else *)
Reject(s, name, email, phone, age) ==
    /\ last' = Event("rejected", 0, NoData, "none", FALSE, clock,
                     <<ValidationError(name, email, phone, age)>>)
    /\ UNCHANGED storeVars
    /\ EndRun(s)

(* An interaction starts a run: the sidebar's choice, whether the panel's
   button was the trigger, then init_database() at line 171 *)
Run(s) ==
    /\ pc[s] = "idle"
    /\ \E p \in Panels, b \in BOOLEAN, fail \in Faults :
          /\ p = "view" => ~b
          /\ init_database(fail)
          /\ IF fail = "none"
               THEN /\ pc' = [pc EXCEPT ![s] = "start"]
                    /\ panel' = [panel EXCEPT ![s] = p]
                    /\ pressed' = [pressed EXCEPT ![s] = b]
                    /\ UNCHANGED <<df, selected_id, record>>
               ELSE /\ EndRun(s)
                    /\ UNCHANGED panel
    /\ UNCHANGED sessions

(* st.rerun() after a delete: the script starts over, no button pressed *)
Rerun(s) ==
    /\ pc[s] = "rerun"
    /\ \E fail \in Faults :
          /\ init_database(fail)
          /\ IF fail = "none"
               THEN /\ pc' = [pc EXCEPT ![s] = "start"]
                    /\ pressed' = [pressed EXCEPT ![s] = FALSE]
                    /\ UNCHANGED <<df, selected_id, record>>
               ELSE EndRun(s)
    /\ UNCHANGED <<sessions, panel>>

(* View Records, lines 195-227 *)
ViewPanel(s) ==
    /\ pc[s] = "start" /\ panel[s] = "view"
    /\ \E fail \in ReadFaults : view_all_records(fail)
    /\ EndRun(s)
    /\ UNCHANGED <<sessions, panel>>

(* Add Record, lines 232-295 *)
AddPanel(s) ==
    /\ pc[s] = "start" /\ panel[s] = "add"
    /\ IF pressed[s]
         THEN \E name \in NameInputs, email \in EmailInputs,
                 phone \in PhoneInputs, age \in NumberInput(AgeMin, AgeMax) :
                 IF ValidationError(name, email, phone, age) # "none"
                 THEN Reject(s, name, email, phone, age)
                 ELSE /\ \E fail \in Faults, elapsed \in 0..1 :
                            insert_record(name, email, phone, age, fail,
                                          elapsed)
                      /\ EndRun(s)
         ELSE /\ EndRun(s)
              /\ UNCHANGED <<users, seq, assigned, clock, openConns, last>>
    /\ UNCHANGED <<sessions, panel>>

(* df = view_all_records() and the test of df.empty, lines 304-306 and
   392-394 *)
ListRecords(s) ==
    /\ pc[s] = "start" /\ panel[s] \in {"update", "delete"}
    /\ \E fail \in ReadFaults :
          /\ view_all_records(fail)
          /\ IF fail = "none" /\ users # {}
               THEN /\ df' = [df EXCEPT ![s] = SelectAll(users)]
                    /\ pc' = [pc EXCEPT ![s] = "listed"]
                    /\ UNCHANGED <<selected_id, record, pressed>>
               ELSE EndRun(s)
    /\ UNCHANGED <<sessions, panel>>

(* A panel that takes any id typed in and never looks the record up *)
FetchSelectedUnchecked(s) ==
    /\ pc[s] = "listed"
    /\ \E id \in 1..MaxId :
          /\ selected_id' = [selected_id EXCEPT ![s] = id]
          /\ record' = [record EXCEPT ![s] = SelectById(users, id)]
          /\ pc' = [pc EXCEPT ![s] = "fetched"]
    /\ UNCHANGED <<users, seq, assigned, clock, openConns, last>>
    /\ UNCHANGED <<sessions, panel, df, pressed>>

(* selected_id = st.selectbox(options=df["id"].tolist()), then
   record = view_record_by_id(selected_id) and the test of record,
   lines 310-321 and 398-409 *)
FetchSelected(s) ==
    /\ pc[s] = "listed"
    /\ \E i \in 1..Len(df[s]), fail \in ReadFaults :
          /\ view_record_by_id(df[s][i].id, fail)
          /\ IF fail = "none" /\ SelectById(users, df[s][i].id) # <<>>
               THEN /\ selected_id' = [selected_id EXCEPT ![s] = df[s][i].id]
                    /\ record' = [record EXCEPT ![s] =
                                     SelectById(users, df[s][i].id)]
                    /\ pc' = [pc EXCEPT ![s] = "fetched"]
                    /\ UNCHANGED <<df, pressed>>
               ELSE EndRun(s)
    /\ UNCHANGED <<sessions, panel>>

(* The update form's handler, lines 327-383 *)
UpdatePanel(s) ==
    /\ pc[s] = "fetched" /\ panel[s] = "update"
    /\ IF pressed[s]
         THEN \E name \in NameInputs, email \in EmailInputs,
                 phone \in PhoneInputs, age \in NumberInput(AgeMin, AgeMax) :
                 IF ValidationError(name, email, phone, age) # "none"
                 THEN Reject(s, name, email, phone, age)
                 ELSE /\ \E fail \in Faults :
                            update_record(selected_id[s], name, email, phone,
                                          age, fail)
                      /\ EndRun(s)
         ELSE /\ EndRun(s)
              /\ UNCHANGED <<users, seq, assigned, clock, openConns, last>>
    /\ UNCHANGED <<sessions, panel>>

(* The delete button's handler, lines 425-434 *)
DeletePanel(s) ==
    /\ pc[s] = "fetched" /\ panel[s] = "delete"
    /\ IF pressed[s]
         THEN \E fail \in Faults :
                 /\ delete_record(selected_id[s], fail)
                 /\ IF fail = "none"
                      THEN /\ pc' = [pc EXCEPT ![s] = "rerun"]
                           /\ df' = [df EXCEPT ![s] = <<>>]
                           /\ selected_id' = [selected_id EXCEPT ![s] = 0]
                           /\ record' = [record EXCEPT ![s] = <<>>]
                           /\ pressed' = [pressed EXCEPT ![s] = FALSE]
                      ELSE EndRun(s)
         ELSE /\ EndRun(s)
              /\ UNCHANGED <<users, seq, assigned, clock, openConns, last>>
    /\ UNCHANGED <<sessions, panel>>

(* One browser session *)
ShellInit ==
    /\ StoreInit
    /\ sessions = {1}
    /\ NoShell

(* Two browser sessions sharing the database file *)
TwoSessionInit ==
    /\ StoreInit
    /\ sessions = {1, 2}
    /\ NoShell

ShellNext ==
    \/ \E s \in sessions : Run(s)
    \/ \E s \in sessions : Rerun(s)
    \/ \E s \in sessions : ViewPanel(s)
    \/ \E s \in sessions : AddPanel(s)
    \/ \E s \in sessions : ListRecords(s)
    \/ \E s \in sessions : FetchSelected(s)
    \/ \E s \in sessions : UpdatePanel(s)
    \/ \E s \in sessions : DeletePanel(s)
    \/ Tick
    \/ Finalize

ShellSpec == ShellInit /\ [][ShellNext]_vars

TwoSessionSpec == TwoSessionInit /\ [][ShellNext]_vars

----------------------------------------------------------------------------
(* Properties of the Record Store *)

(* The step just taken is a call of op *)
Called(op) == last'.nth # last.nth /\ last'.op = op

(* The row of rows with this id *)
RowOf(rows, id) == CHOOSE r \in rows : r.id = id

Range(s) == {s[i] : i \in 1..Len(s)}

(* C1: the ids of the stored rows are pairwise distinct; the id an INSERT
   gives a row was never assigned before, not even to a row since deleted;
   no step changes the id of a row: ids enter the table only through a
   successful INSERT, and a row that stays keeps its created_at. *)
C1_IdsUniqueNeverReused ==
    [][ /\ \A r1, r2 \in users' : r1.id = r2.id => r1 = r2
        /\ (Called("insert_record") /\ last'.ok) =>
              /\ last'.id \notin assigned
              /\ Ids(users') = Ids(users) \cup {last'.id}
        /\ ~(Called("insert_record") /\ last'.ok) =>
              Ids(users') \subseteq Ids(users)
        /\ \A r \in users, q \in users' :
              r.id = q.id => r.created_at = q.created_at ]_vars

(* An id has been deleted and a later INSERT has succeeded *)
C1_Witness ==
    /\ last.op = "insert_record" /\ last.ok
    /\ \E i \in assigned : i \notin Ids(users)

(* C2 as stated: after a successful insert, the first element of ListAll
   carries the four values passed, an id that was not in the store before,
   and a created_at no earlier than the time of the call. *)
C2_Original ==
    [][ (Called("insert_record") /\ last'.ok) =>
          LET l == SelectAll(users')
          IN  /\ Len(l) > 0
              /\ <<l[1].name, l[1].email, l[1].phone, l[1].age>> = last'.data
              /\ l[1].id \notin Ids(users)
              /\ l[1].created_at * TicksPerSec >= last'.at ]_vars

(* C2 amended: as C2, with created_at no earlier than the time of the call
   truncated to whole seconds. *)
C2_InsertThenListAll ==
    [][ (Called("insert_record") /\ last'.ok) =>
          LET l == SelectAll(users')
          IN  /\ Len(l) > 0
              /\ <<l[1].name, l[1].email, l[1].phone, l[1].age>> = last'.data
              /\ l[1].id \notin Ids(users)
              /\ l[1].id = last'.id
              /\ l[1].created_at >= last'.at \div TicksPerSec ]_vars

(* A successful insert into a store that already holds a row, called in
   the middle of a second *)
C2_Witness ==
    /\ last.op = "insert_record" /\ last.ok
    /\ Cardinality(users) >= 2
    /\ last.at % TicksPerSec # 0

(* C3: a successful update of a present id makes GetById return exactly
   the values passed, keeps the row's id and created_at, and leaves every
   other row as it was. *)
C3_UpdateThenGetById ==
    [][ (Called("update_record") /\ last'.ok /\ last'.present) =>
          /\ SelectById(users', last'.id) = last'.data
          /\ Ids(users') = Ids(users)
          /\ Cardinality(users') = Cardinality(users)
          /\ RowOf(users', last'.id).created_at
                = RowOf(users, last'.id).created_at
          /\ \A r \in users : r.id # last'.id => r \in users' ]_vars

(* An update has changed one of two rows *)
C3_Witness ==
    /\ last.op = "update_record" /\ last.ok /\ last.present
    /\ Cardinality(users) >= 2
    /\ \E r \in users : r.id # last.id
                        /\ <<r.name, r.email, r.phone, r.age>> # last.data

(* C4: after a successful delete GetById returns absent and ListAll holds
   no row with that id; every other row is still there, unchanged. *)
C4_DeleteThenAbsent ==
    [][ (Called("delete_record") /\ last'.ok) =>
          /\ SelectById(users', last'.id) = <<>>
          /\ \A r \in Range(SelectAll(users')) : r.id # last'.id
          /\ users' \subseteq users
          /\ \A r \in users : r.id # last'.id => r \in users' ]_vars

(* A present row has been deleted and another row remains *)
C4_Witness ==
    /\ last.op = "delete_record" /\ last.ok /\ last.present
    /\ users # {}

(* C5: for an id that is not in the store, GetById returns absent, and,
   when the engine raises no error, update and delete return True and leave
   the table as it was. *)
C5_AbsentId ==
    [][ /\ (Called("view_record_by_id") /\ ~last'.present) => last'.out = <<>>
        /\ ( /\ Called("update_record") \/ Called("delete_record")
             /\ ~last'.present
             /\ last'.fault = "none" ) =>
              /\ last'.ok
              /\ users' = users
              /\ seq' = seq ]_vars

(* An update of an absent id has returned True on a non-empty table *)
C5_Witness ==
    /\ last.op = "update_record" /\ last.ok /\ ~last.present
    /\ users # {}

(* A delete of an absent id has returned True on a non-empty table *)
C5_WitnessDelete ==
    /\ last.op = "delete_record" /\ last.ok /\ ~last.present
    /\ users # {}

(* C6: what ListAll returns holds every stored row exactly once, in
   descending order of id; it is empty when the table is. *)
C6_ListAllOrdered ==
    (last.op = "view_all_records" /\ last.ok) =>
        LET l == last.out
        IN  /\ Range(l) = users
            /\ Len(l) = Cardinality(users)
            /\ \A i, j \in 1..Len(l) : i < j => l[i].id > l[j].id
            /\ users = {} => l = <<>>

(* ListAll has returned two rows *)
C6_Witness ==
    /\ last.op = "view_all_records" /\ last.ok
    /\ Len(last.out) >= 2

(* C9: once an operation has returned, on its success or its failure path,
   the connection it opened is closed: no connection stays open. *)
C9_ConnectionsClosed == openConns = 0

----------------------------------------------------------------------------
(* Properties of the Presentation Shell *)

(* The constraints of the data model on one row *)
WellFormed(r) ==
    /\ r.name # <<>>
    /\ Contains(r.email, "@")
    /\ r.phone # <<>>
    /\ r.age >= 1 /\ r.age <= 120

(* C7: whatever is added, updated and deleted through the shell, starting
   from an empty table, every stored row has a non-empty name, an email
   with an '@', a non-empty phone and an age in 1..120. *)
C7_PersistedRowsWellFormed == \A r \in users : WellFormed(r)

(* The shell has updated one of two stored rows *)
C7_Witness ==
    /\ last.op = "update_record" /\ last.ok /\ last.present
    /\ Cardinality(users) >= 2

(* C8: a submission that fails validation leaves the store as it was and
   opens no connection, and every insert_record or update_record call the
   shell makes carries a name, email and phone that are non-empty after
   trimming, an email with an '@' and an age of at least 1. *)
C8_RejectedSubmissionNoCall ==
    [][ /\ Called("rejected") =>
              /\ users' = users
              /\ seq' = seq
              /\ assigned' = assigned
              /\ openConns' = openConns
        /\ (Called("insert_record") \/ Called("update_record")) =>
              /\ Strip(last'.data[1]) # <<>>
              /\ Strip(last'.data[2]) # <<>>
              /\ Strip(last'.data[3]) # <<>>
              /\ Contains(last'.data[2], "@")
              /\ last'.data[4] >= 1 ]_vars

(* An email without '@' has been rejected while the table holds a row *)
C8_Witness ==
    /\ last.op = "rejected"
    /\ last.out = <<"Please enter a valid email address!">>
    /\ users # {}

C10_RaceReached ==
    last.op \in {"update_record", "delete_record"} /\ last.ok /\ ~last.present

====
